---- MODULE Spec2Model ----
(***************************************************************************)
(* Model of the go-otel trace package: a process-wide tracer facade        *)
(* (Initialize / Shutdown / StartSpan / StartSpanWithOptions /             *)
(* IsInitialized) whose global state is guarded by one sync.RWMutex.       *)
(*                                                                         *)
(* Two goroutines (Procs) call the facade.  Every operation is three steps: *)
(* the call (the goroutine reaches the Lock/RLock statement), the lock     *)
(* acquisition (two steps for a writer: sync.RWMutex.Lock first announces  *)
(* the writer, which stops new readers, then waits for the active readers  *)
(* to leave), and the body, which runs the whole function under the lock   *)
(* and ends with the deferred Unlock/RUnlock.                              *)
(*                                                                         *)
(* The external tracing SDK is an opaque collaborator: whether exporter    *)
(* construction, provider shutdown and exporter shutdown fail are inputs   *)
(* of the actions.  Sample rates are in thousandths (10 stands for 0.01).  *)
(***************************************************************************)
EXTENDS Integers, Sequences, FiniteSets, TLC

VARIABLES
    initialized,           \* var initialized bool
    globalTracer,          \* var globalTracer oteltrace.Tracer (None, or the provider it came from)
    globalTracerProvider,  \* var globalTracerProvider *sdktrace.TracerProvider
    globalExporter,        \* var globalExporter sdktrace.SpanExporter
    globalMutex,           \* var globalMutex sync.RWMutex: [writer, readers]
    otelTracerProvider,    \* the SDK's process-wide default tracer provider
    otelPropagator,        \* the SDK's process-wide default propagator
    created,               \* how many providers have been constructed so far
    tps,                   \* the providers (with their exporters) the globals refer to
    spans,                 \* every span started by a tracer so far
    pc,                    \* per goroutine: the operation it is in and where
    ret                    \* per goroutine: what its last operation returned

vars == <<initialized, globalTracer, globalTracerProvider, globalExporter,
          globalMutex, otelTracerProvider, otelPropagator, created, tps, spans,
          pc, ret>>

globals == <<initialized, globalTracer, globalTracerProvider, globalExporter>>

otelGlobals == <<otelTracerProvider, otelPropagator>>

----------------------------------------------------------------------------
(* Bounds *)

MaxInits == 2

MaxSpans == 2

----------------------------------------------------------------------------
(* Values *)

\* The goroutines of the host application that call the facade.
Procs == {"g1", "g2"}

None == 0

Background == 0

NoopSpan == 0

NoWriter == "none"

defaultSampleRate == 10

ErrNil == "nil"

ErrAlreadyInitialized == "tracer already initialized"

ErrInvalidConfiguration == "invalid configuration"

ErrCreateProvider == "failed to create tracer provider"

ErrNotInitialized == "tracer not initialized"

ErrProviderShutdown == "tracer provider shutdown failed"

ErrExporterShutdown == "exporter shutdown failed"

ErrMultipleShutdown == "multiple shutdown failures"

AppNames == {"", "svc"}

TraceURLs == {"", "collector:4318"}

SampleRates == {-1, 0, 5, 10, 100, 1000, 1001}

\* The exporter types NewExporterType yields.
ExporterTypes == {"HTTP", "GRPC"}

Configs == [AppName : AppNames, TraceURL : TraceURLs,
            TraceEnabled : BOOLEAN, SampleRate : SampleRates,
            ExporterType : ExporterTypes]

Names == {"op"}

NoOpts == <<>>

OptionLists == {NoOpts}

WriteOps == {"Initialize", "Shutdown"}

SpanOps == {"StartSpan", "StartSpanWithOptions"}

ReadOps == SpanOps \cup {"IsInitialized"}

Ops == WriteOps \cup ReadOps

Idle == [op |-> "none", at |-> "idle"]

RetNone == [op |-> "none", err |-> ErrNil, ctx |-> Background, span |-> NoopSpan,
            val |-> FALSE, calls |-> <<>>]

----------------------------------------------------------------------------
(* TracerConfig.Validate and TracerConfig.setDefaults *)

Validate(config) ==
    IF config.AppName = "" THEN ErrInvalidConfiguration
    ELSE IF config.TraceEnabled /\ config.TraceURL = "" THEN ErrInvalidConfiguration
    ELSE IF config.SampleRate < 0 \/ config.SampleRate > 1000 THEN ErrInvalidConfiguration
    ELSE ErrNil

\* Defaults that leave an unset sample rate as it is.
Mut_setDefaults(config) == config

setDefaults(config) ==
    IF config.SampleRate = 0
    THEN [config EXCEPT !.SampleRate = defaultSampleRate]
    ELSE config

----------------------------------------------------------------------------
(* Construction of the exporter and the provider *)

\* newExporter: otlptracehttp.New either fails or yields an exporter, whose
\* transport is the OTLP HTTP client whatever config.ExporterType is.
newExporter(config, ctorFails) ==
    IF ctorFails
    THEN [exp |-> FALSE, transport |-> "none",
          err |-> "failed to create OTLP HTTP exporter"]
    ELSE [exp |-> TRUE, transport |-> "HTTP", err |-> ErrNil]

\* A threshold test that leaves the default rate itself to the ratio sampler.
Mut_Sampler(config) ==
    IF config.SampleRate > defaultSampleRate
    THEN [kind |-> "AlwaysSample", rate |-> 1000]
    ELSE [kind |-> "TraceIDRatioBased", rate |-> config.SampleRate]

\* The sampler newTracerProvider configures with tracing enabled.
Sampler(config) ==
    IF config.SampleRate >= defaultSampleRate
    THEN [kind |-> "AlwaysSample", rate |-> 1000]
    ELSE [kind |-> "TraceIDRatioBased", rate |-> config.SampleRate]

\* newTracerProvider: (tp, exp, err).  tp is the provider's description.
newTracerProvider(config, ctorFails) ==
    IF ~config.TraceEnabled
    THEN [tp |-> [sampler |-> [kind |-> "NeverSample", rate |-> 0],
                  batched |-> FALSE, transport |-> "none",
                  tpShutdown |-> FALSE, expShutdown |-> FALSE],
          exp |-> FALSE, err |-> ErrNil]
    ELSE LET e == newExporter(config, ctorFails)
         IN  IF e.err # ErrNil
             THEN [tp |-> None, exp |-> FALSE, err |-> "failed to create exporter"]
             ELSE [tp |-> [sampler |-> Sampler(config), batched |-> TRUE,
                           transport |-> e.transport,
                           tpShutdown |-> FALSE, expShutdown |-> FALSE],
                   exp |-> TRUE, err |-> ErrNil]

----------------------------------------------------------------------------
(* sync.RWMutex *)

InOp(p, o) == pc[p].op = o

At(p, o, where) == pc[p] = [op |-> o, at |-> where]

\* A goroutine reaches the first statement of operation o.
CallGuard(o) ==
    CASE o = "Initialize" ->
            created + Cardinality({q \in Procs : InOp(q, "Initialize")}) < MaxInits
      [] o \in SpanOps ->
            Len(spans) + Cardinality({q \in Procs : pc[q].op \in SpanOps}) < MaxSpans
      [] OTHER -> TRUE

Call(p, o) ==
    /\ pc[p] = Idle
    /\ CallGuard(o)
    /\ pc' = [pc EXCEPT ![p] = [op |-> o, at |-> "lock"]]
    /\ ret' = [ret EXCEPT ![p] = RetNone]
    /\ UNCHANGED <<globals, globalMutex, otelGlobals, created, tps, spans>>

\* A write lock that does not exclude another writer (a shared lock taken
\* where the exclusive one is meant).
Mut_CanLock == TRUE

\* globalMutex.Lock(), first half: the writer is announced; later readers and
\* writers wait behind it.
CanLock == globalMutex.writer = NoWriter

LockBegin(p) ==
    /\ pc[p].op \in WriteOps
    /\ pc[p].at = "lock"
    /\ CanLock
    /\ globalMutex' = [globalMutex EXCEPT !.writer = p]
    /\ pc' = [pc EXCEPT ![p].at = "wait"]
    /\ UNCHANGED <<globals, otelGlobals, created, tps, spans, ret>>

\* A write lock that does not wait for the active readers to leave.
Mut_LockAcquire(p) ==
    /\ pc[p].op \in WriteOps
    /\ pc[p].at = "wait"
    /\ pc' = [pc EXCEPT ![p].at = "cs"]
    /\ UNCHANGED <<globals, globalMutex, otelGlobals, created, tps, spans, ret>>

\* globalMutex.Lock(), second half: the active readers have left.
LockAcquire(p) ==
    /\ pc[p].op \in WriteOps
    /\ pc[p].at = "wait"
    /\ globalMutex.readers = {}
    /\ pc' = [pc EXCEPT ![p].at = "cs"]
    /\ UNCHANGED <<globals, globalMutex, otelGlobals, created, tps, spans, ret>>

\* A read lock that excludes other readers too (a plain Mutex).
Mut_CanRLock == globalMutex.writer = NoWriter /\ globalMutex.readers = {}

\* globalMutex.RLock(): waits while a writer holds or awaits the lock.
CanRLock == globalMutex.writer = NoWriter

RLock(p) ==
    /\ pc[p].op \in ReadOps
    /\ pc[p].at = "lock"
    /\ CanRLock
    /\ globalMutex' = [globalMutex EXCEPT !.readers = @ \cup {p}]
    /\ pc' = [pc EXCEPT ![p].at = "cs"]
    /\ UNCHANGED <<globals, otelGlobals, created, tps, spans, ret>>

\* A return that does not release the write lock.
Mut_Unlock(p) == globalMutex

\* defer globalMutex.Unlock()
Unlock(p) == [globalMutex EXCEPT !.writer = NoWriter]

\* defer globalMutex.RUnlock()
RUnlock(p) == [globalMutex EXCEPT !.readers = @ \ {p}]

----------------------------------------------------------------------------
(* Initialize *)

\* Initialize without its already-initialized check.
Mut_InitializeRejected == FALSE

\* if initialized { return errors.New("tracer already initialized") }
InitializeRejected == initialized

\* Initialize going on although Validate returned an error.
Mut_ConfigRejected(config) == FALSE

\* if err := config.Validate(); err != nil { return ... }
ConfigRejected(config) == Validate(config) # ErrNil

\* setupGlobalTracing and the publication of the four globals.
\* A publication that stores an exporter handle whether or not newTracerProvider
\* returned an exporter.
Mut_Publish(p, r) ==
    LET id == created + 1
    IN  /\ created' = id
        /\ tps' = (id :> r.tp)
        /\ otelTracerProvider' = id
        /\ otelPropagator' = "TraceContext+Baggage"
        /\ globalTracer' = id
        /\ globalTracerProvider' = id
        /\ globalExporter' = id
        /\ initialized' = TRUE
        /\ ret' = [ret EXCEPT ![p] = [RetNone EXCEPT !.op = "Initialize"]]

Publish(p, r) ==
    LET id == created + 1
    IN  /\ created' = id
        /\ tps' = (id :> r.tp)
        /\ otelTracerProvider' = id
        /\ otelPropagator' = "TraceContext+Baggage"
        /\ globalTracer' = id
        /\ globalTracerProvider' = id
        /\ globalExporter' = IF r.exp THEN id ELSE None
        /\ initialized' = TRUE
        /\ ret' = [ret EXCEPT ![p] = [RetNone EXCEPT !.op = "Initialize"]]

InitializeFails(p, err) ==
    /\ ret' = [ret EXCEPT ![p] = [RetNone EXCEPT !.op = "Initialize", !.err = err]]
    /\ UNCHANGED <<globals, otelGlobals, created, tps>>

\* setupGlobalTracing(tp) moved before the check of newTracerProvider's error.
Mut_ConstructionFailure(p) ==
    /\ ret' = [ret EXCEPT ![p] = [RetNone EXCEPT !.op = "Initialize",
                                                 !.err = ErrCreateProvider]]
    /\ otelTracerProvider' = created + 1
    /\ otelPropagator' = "TraceContext+Baggage"
    /\ UNCHANGED <<globals, created, tps>>

\* if err != nil { return fmt.Errorf("failed to create tracer provider: %w", err) }
ConstructionFailure(p) == InitializeFails(p, ErrCreateProvider)

InitializeBody(p, config, ctorFails) ==
    /\ At(p, "Initialize", "cs")
    /\ IF InitializeRejected
       THEN InitializeFails(p, ErrAlreadyInitialized)
       ELSE IF ConfigRejected(config)
       THEN InitializeFails(p, ErrInvalidConfiguration)
       ELSE LET r == newTracerProvider(setDefaults(config), ctorFails)
            IN  IF r.err # ErrNil
                THEN ConstructionFailure(p)
                ELSE Publish(p, r)
    /\ globalMutex' = Unlock(p)
    /\ pc' = [pc EXCEPT ![p] = Idle]
    /\ UNCHANGED spans

----------------------------------------------------------------------------
(* StartSpan and StartSpanWithOptions *)

Contexts == {Background} \cup (1..Len(spans))

\* oteltrace.SpanFromContext: the span the context carries, else the no-op span.
SpanFromContext(ctx) == IF ctx = Background THEN NoopSpan ELSE ctx

\* if !initialized || globalTracer == nil
NotReady == ~initialized \/ globalTracer = None

\* A Start that is handed the name but not the options.
Mut_TracerStart(ctx, name, opts) ==
    [name |-> name, opts |-> NoOpts, parent |-> SpanFromContext(ctx),
     ended |-> FALSE]

\* globalTracer.Start(ctx, name, opts...): a new span under the one ctx carries.
TracerStart(ctx, name, opts) ==
    [name |-> name, opts |-> opts, parent |-> SpanFromContext(ctx),
     ended |-> FALSE]

StartSpanBody(p, o, ctx, name, opts) ==
    /\ o \in SpanOps
    /\ At(p, o, "cs")
    /\ IF NotReady
       THEN /\ ret' = [ret EXCEPT ![p] = [RetNone EXCEPT !.op = o, !.ctx = ctx,
                                               !.span = SpanFromContext(ctx)]]
            /\ UNCHANGED spans
       ELSE /\ spans' = Append(spans, TracerStart(ctx, name, opts))
            /\ ret' = [ret EXCEPT ![p] = [RetNone EXCEPT !.op = o,
                                               !.ctx = Len(spans) + 1,
                                               !.span = Len(spans) + 1]]
    /\ globalMutex' = RUnlock(p)
    /\ pc' = [pc EXCEPT ![p] = Idle]
    /\ UNCHANGED <<globals, otelGlobals, created, tps>>

\* The caller's `defer span.End()` on the span a StartSpan call returned.
EndSpan(p) ==
    /\ pc[p] = Idle
    /\ ret[p].op \in SpanOps
    /\ spans' = IF ret[p].span = NoopSpan
                THEN spans
                ELSE [spans EXCEPT ![ret[p].span].ended = TRUE]
    /\ ret' = [ret EXCEPT ![p] = RetNone]
    /\ UNCHANGED <<globals, globalMutex, otelGlobals, created, tps, pc>>

----------------------------------------------------------------------------
(* Shutdown *)

\* Shutdown without its not-initialized check.
Mut_ShutdownRejected == FALSE

\* if !initialized { return errors.New("tracer not initialized") }
ShutdownRejected == ~initialized

\* An exporter-failure return that drops the provider's failure.
Mut_ExporterFailure(shutdownErr) == ErrExporterShutdown

\* The error of the exporter-failure return, given the provider's error so far.
ExporterFailure(shutdownErr) ==
    IF shutdownErr # ErrNil THEN ErrMultipleShutdown ELSE ErrExporterShutdown

\* A reset that forgets the initialized flag.
Mut_Reset(p, shutdownErr, calls, called) ==
    /\ globalTracer' = None
    /\ globalTracerProvider' = None
    /\ globalExporter' = None
    /\ initialized' = initialized
    /\ tps' = <<>>
    /\ ret' = [ret EXCEPT ![p] = [RetNone EXCEPT !.op = "Shutdown",
                                                 !.err = shutdownErr,
                                                 !.calls = calls]]

\* "Reset global state" and return shutdownErr; the provider and exporter are
\* no longer referenced.
Reset(p, shutdownErr, calls, called) ==
    /\ globalTracer' = None
    /\ globalTracerProvider' = None
    /\ globalExporter' = None
    /\ initialized' = FALSE
    /\ tps' = <<>>
    /\ ret' = [ret EXCEPT ![p] = [RetNone EXCEPT !.op = "Shutdown",
                                                 !.err = shutdownErr,
                                                 !.calls = calls]]

\* The return from inside the exporter-failure branch.
ExporterFailureReturn(p, shutdownErr, calls, called) ==
    /\ ret' = [ret EXCEPT ![p] = [RetNone EXCEPT !.op = "Shutdown",
                                                 !.err = ExporterFailure(shutdownErr),
                                                 !.calls = calls]]
    /\ tps' = called
    /\ UNCHANGED globals

ShutdownBody(p, tpFails, expFails) ==
    /\ At(p, "Shutdown", "cs")
    /\ IF ShutdownRejected
       THEN /\ ret' = [ret EXCEPT ![p] = [RetNone EXCEPT !.op = "Shutdown",
                                               !.err = ErrNotInitialized]]
            /\ UNCHANGED <<globals, tps>>
       ELSE LET tpCalled == globalTracerProvider # None
                expCalled == globalExporter # None
                shutdownErr == IF tpCalled /\ tpFails
                               THEN ErrProviderShutdown ELSE ErrNil
                tps1 == IF tpCalled
                        THEN [tps EXCEPT ![globalTracerProvider].tpShutdown = TRUE]
                        ELSE tps
                tps2 == IF expCalled
                        THEN [tps1 EXCEPT ![globalExporter].expShutdown = TRUE]
                        ELSE tps1
                calls == (IF tpCalled THEN <<"provider">> ELSE <<>>)
                         \o (IF expCalled THEN <<"exporter">> ELSE <<>>)
            IN  IF expCalled /\ expFails
                THEN ExporterFailureReturn(p, shutdownErr, calls, tps2)
                ELSE Reset(p, shutdownErr, calls, tps2)
    /\ globalMutex' = Unlock(p)
    /\ pc' = [pc EXCEPT ![p] = Idle]
    /\ UNCHANGED <<otelGlobals, created, spans>>

----------------------------------------------------------------------------
(* IsInitialized *)

\* An IsInitialized that reports whether there is an exporter.
Mut_IsInitializedBody(p) ==
    /\ At(p, "IsInitialized", "cs")
    /\ ret' = [ret EXCEPT ![p] = [RetNone EXCEPT !.op = "IsInitialized",
                                                 !.val = globalExporter # None]]
    /\ globalMutex' = RUnlock(p)
    /\ pc' = [pc EXCEPT ![p] = Idle]
    /\ UNCHANGED <<globals, otelGlobals, created, tps, spans>>

IsInitializedBody(p) ==
    /\ At(p, "IsInitialized", "cs")
    /\ ret' = [ret EXCEPT ![p] = [RetNone EXCEPT !.op = "IsInitialized",
                                                 !.val = initialized]]
    /\ globalMutex' = RUnlock(p)
    /\ pc' = [pc EXCEPT ![p] = Idle]
    /\ UNCHANGED <<globals, otelGlobals, created, tps, spans>>

----------------------------------------------------------------------------
(* Specification *)

Init ==
    /\ initialized = FALSE
    /\ globalTracer = None
    /\ globalTracerProvider = None
    /\ globalExporter = None
    /\ globalMutex = [writer |-> NoWriter, readers |-> {}]
    /\ otelTracerProvider = None
    /\ otelPropagator = "none"
    /\ created = 0
    /\ tps = <<>>
    /\ spans = <<>>
    /\ pc = [p \in Procs |-> Idle]
    /\ ret = [p \in Procs |-> RetNone]

Next ==
    \E p \in Procs :
        \/ \E o \in Ops : Call(p, o)
        \/ LockBegin(p)
        \/ LockAcquire(p)
        \/ RLock(p)
        \/ \E config \in Configs, ctorFails \in BOOLEAN :
               InitializeBody(p, config, ctorFails)
        \/ \E tpFails \in BOOLEAN, expFails \in BOOLEAN :
               ShutdownBody(p, tpFails, expFails)
        \/ \E ctx \in Contexts, name \in Names :
               StartSpanBody(p, "StartSpan", ctx, name, NoOpts)
        \/ \E ctx \in Contexts, name \in Names, opts \in OptionLists :
               StartSpanBody(p, "StartSpanWithOptions", ctx, name, opts)
        \/ EndSpan(p)
        \/ IsInitializedBody(p)

Spec == Init /\ [][Next]_vars

\* Configs that take Initialize down each of its exit paths: the quick-start
\* config, with and without tracing, and the same with the name left empty.
LiveConfigs ==
    {config \in Configs :
        /\ config.TraceURL # ""
        /\ config.SampleRate = 1000
        /\ config.ExporterType = "HTTP"}

\* The rest of an operation once it holds the lock: the body up to the return,
\* deferred unlock included.
Body(p) ==
    \/ \E config \in LiveConfigs, ctorFails \in BOOLEAN :
           InitializeBody(p, config, ctorFails)
    \/ \E tpFails \in BOOLEAN, expFails \in BOOLEAN :
           ShutdownBody(p, tpFails, expFails)
    \/ \E o \in SpanOps, ctx \in Contexts, name \in Names, opts \in OptionLists :
           StartSpanBody(p, o, ctx, name, opts)
    \/ IsInitializedBody(p)

\* Scheduling: a goroutine inside an operation keeps running, and the external
\* calls of the bodies return (weak fairness of the steps that need no lock);
\* sync.RWMutex hands the lock to a goroutine that waits for it: the write
\* lock's starvation mode, and the release of the waiting readers by Unlock
\* (strong fairness of the steps that take the lock).
Fairness ==
    \A p \in Procs :
        /\ SF_vars(LockBegin(p))
        /\ WF_vars(LockAcquire(p))
        /\ SF_vars(RLock(p))
        /\ WF_vars(Body(p))

NextLive ==
    \E p \in Procs :
        \/ \E o \in Ops : Call(p, o)
        \/ LockBegin(p)
        \/ LockAcquire(p)
        \/ RLock(p)
        \/ Body(p)

SpecLive == Init /\ [][NextLive]_vars /\ Fairness

\* The configs Validate accepts.
ValidConfigs == {config \in Configs : Validate(config) = ErrNil}

\* Goroutines racing to initialize: every operation but Shutdown, and only
\* valid configs.
NextRace ==
    \E p \in Procs :
        \/ \E o \in Ops \ {"Shutdown"} : Call(p, o)
        \/ LockBegin(p)
        \/ LockAcquire(p)
        \/ RLock(p)
        \/ \E config \in ValidConfigs, ctorFails \in BOOLEAN :
               InitializeBody(p, config, ctorFails)
        \/ \E ctx \in Contexts, name \in Names :
               StartSpanBody(p, "StartSpan", ctx, name, NoOpts)
        \/ \E ctx \in Contexts, name \in Names, opts \in OptionLists :
               StartSpanBody(p, "StartSpanWithOptions", ctx, name, opts)
        \/ EndSpan(p)
        \/ IsInitializedBody(p)

SpecRace == Init /\ [][NextRace]_vars

\* Span creation with names and option lists that differ from call to call.
SpanNames == {"op", "db.query"}

SpanOptionLists == {NoOpts, <<"WithSpanKind(Client)">>}

\* The configs of the README's quick start, tracing enabled or disabled.
SpanConfigs ==
    {config \in ValidConfigs :
        config.SampleRate = 1000 /\ config.ExporterType = "HTTP"}

\* Goroutines creating spans around the facade's lifecycle: the quick-start
\* configs, every operation but IsInitialized, and spans that are not ended.
NextSpans ==
    \E p \in Procs :
        \/ \E o \in Ops \ {"IsInitialized"} : Call(p, o)
        \/ LockBegin(p)
        \/ LockAcquire(p)
        \/ RLock(p)
        \/ \E config \in SpanConfigs, ctorFails \in BOOLEAN :
               InitializeBody(p, config, ctorFails)
        \/ \E tpFails \in BOOLEAN, expFails \in BOOLEAN :
               ShutdownBody(p, tpFails, expFails)
        \/ \E ctx \in Contexts, name \in SpanNames :
               StartSpanBody(p, "StartSpan", ctx, name, NoOpts)
        \/ \E ctx \in Contexts, name \in SpanNames, opts \in SpanOptionLists :
               StartSpanBody(p, "StartSpanWithOptions", ctx, name, opts)

SpecSpans == Init /\ [][NextSpans]_vars

----------------------------------------------------------------------------
(* Properties *)

\* Goroutine p runs the body of operation o in this step and returns.
Returns(p, o) == At(p, o, "cs") /\ pc'[p] = Idle

Returned(p, o, err) == pc[p] = Idle /\ ret[p].op = o /\ ret[p].err = err

HandlesEmpty ==
    /\ globalTracer = None
    /\ globalTracerProvider = None
    /\ globalExporter = None

\* C1: an Initialize that runs while the facade is Initialized returns the
\* already-initialized error whatever its config, and leaves the initialized
\* flag, the tracer, provider and exporter handles, the provider itself and the
\* SDK's process-wide defaults as they were.
C1_InitializeTwiceRejected ==
    [][\A p \in Procs :
          (Returns(p, "Initialize") /\ initialized)
              => /\ ret'[p].err = ErrAlreadyInitialized
                 /\ UNCHANGED <<globals, otelGlobals, created, tps>>]_vars

C1_Witness ==
    \E p \in Procs : Returned(p, "Initialize", ErrAlreadyInitialized) /\ initialized

\* C2: a Shutdown that runs while the facade is Uninitialized returns the
\* not-initialized error, calls neither the provider's nor the exporter's
\* shutdown, and changes nothing of the global state.
C2_ShutdownUninitializedRejected ==
    [][\A p \in Procs :
          (Returns(p, "Shutdown") /\ ~initialized)
              => /\ ret'[p].err = ErrNotInitialized
                 /\ ret'[p].calls = <<>>
                 /\ UNCHANGED <<globals, otelGlobals, created, tps, spans>>]_vars

C2_Witness ==
    \E p \in Procs :
        Returned(p, "Shutdown", ErrNotInitialized) /\ ~initialized /\ created > 0

\* C3: every Shutdown that runs while the facade is Initialized leaves it
\* Uninitialized when it returns (flag false, the three handles empty), whatever
\* the provider's and the exporter's shutdown return.
C3_ShutdownAlwaysResets ==
    [][\A p \in Procs :
          (Returns(p, "Shutdown") /\ initialized)
              => (~initialized' /\ HandlesEmpty')]_vars

C3_Witness ==
    \E p \in Procs : Returned(p, "Shutdown", ErrExporterShutdown) /\ initialized

\* The configs Initialize can complete with: valid, and either without an
\* exporter to construct or with its construction succeeding.
Constructible(config, ctorFails) ==
    /\ config.AppName # ""
    /\ config.TraceEnabled => config.TraceURL # ""
    /\ config.SampleRate >= 0 /\ config.SampleRate <= 1000
    /\ ~(config.TraceEnabled /\ ctorFails)

\* C4: over any number of cycles: a successful Initialize leaves the flag that
\* IsInitialized returns true, a successful Shutdown leaves it false, IsInitialized
\* returns that flag, and an Initialize with a valid config that runs while the
\* facade is Uninitialized (in particular after a successful Shutdown) succeeds
\* (the exporter's construction, where there is one, not failing) and is never
\* rejected as already initialized.
C4_ReinitializeAfterShutdown ==
    [][\A p \in Procs :
          /\ (Returns(p, "Initialize") /\ ret'[p].err = ErrNil) => initialized'
          /\ (Returns(p, "Shutdown") /\ ret'[p].err = ErrNil) => ~initialized'
          /\ Returns(p, "IsInitialized") => ret'[p].val = initialized
          /\ (Returns(p, "Initialize") /\ ~initialized)
                => /\ ret'[p].err # ErrAlreadyInitialized
                   /\ \/ ret'[p].err = ErrNil /\ initialized'
                      \/ \A config \in Configs, ctorFails \in BOOLEAN :
                            Constructible(config, ctorFails)
                                => ~InitializeBody(p, config, ctorFails)]_vars

\* A second cycle: the facade is Initialized again after an earlier successful
\* Initialize and Shutdown, and the other goroutine has seen IsInitialized true.
C4_Witness ==
    \E p \in Procs, q \in Procs :
        /\ Returned(p, "Initialize", ErrNil)
        /\ created = 2
        /\ initialized
        /\ Returned(q, "IsInitialized", ErrNil)
        /\ ret[q].val

\* The configs the claim calls invalid.
InvalidConfig(config) ==
    \/ config.AppName = ""
    \/ config.TraceEnabled /\ config.TraceURL = ""
    \/ config.SampleRate < 0
    \/ config.SampleRate > 1000

\* C5: an Initialize that runs while the facade is Uninitialized with an empty
\* application name, or tracing enabled and an empty collector URL, or a sample
\* rate outside [0,1], returns the configuration error, constructs no provider or
\* exporter and leaves the facade Uninitialized.
C5_InvalidConfigRejected ==
    [][\A p \in Procs :
          (Returns(p, "Initialize") /\ ~initialized)
              => \/ /\ ret'[p].err = ErrInvalidConfiguration
                    /\ UNCHANGED <<globals, otelGlobals, created, tps>>
                    /\ ~initialized'
                 \/ \A config \in Configs, ctorFails \in BOOLEAN :
                       InvalidConfig(config)
                           => ~InitializeBody(p, config, ctorFails)]_vars

C5_Witness ==
    \E p \in Procs :
        Returned(p, "Initialize", ErrInvalidConfiguration) /\ ~initialized /\ HandlesEmpty

\* C6: an Initialize whose exporter or provider construction fails returns an
\* error and publishes nothing: the flag stays false, the three handles stay
\* empty, the SDK's process-wide default provider and propagator are not
\* registered anew, so a later Initialize is not rejected.
C6_InitializeAllOrNothing ==
    [][\A p \in Procs :
          (Returns(p, "Initialize") /\ ret'[p].err = ErrCreateProvider)
              => /\ UNCHANGED <<globals, otelGlobals, created, tps>>
                 /\ ~initialized'
                 /\ HandlesEmpty']_vars

\* A failed construction before anything was ever published.
C6_Witness ==
    \E p \in Procs :
        /\ Returned(p, "Initialize", ErrCreateProvider)
        /\ ~initialized
        /\ otelTracerProvider = None
        /\ otelPropagator = "none"

\* C7: a StartSpan or StartSpanWithOptions that runs while the facade is
\* Uninitialized returns, for every input context, the input context and a span
\* that is inert: the no-op span, or one that has already ended, never a live
\* span that the caller's End or SetAttributes would change.
C7_UninitializedSpanIsNoop ==
    [][\A p \in Procs, o \in SpanOps :
          (Returns(p, o) /\ ~initialized)
              => \A ctx \in Contexts, name \in Names, opts \in OptionLists :
                    StartSpanBody(p, o, ctx, name, opts)
                        => /\ ret'[p].ctx = ctx
                           /\ ret'[p].err = ErrNil
                           /\ \/ ret'[p].span = NoopSpan
                              \/ spans[ret'[p].span].ended]_vars

\* The goroutines inside an Initialize or Shutdown critical section.
Writers == {p \in Procs : pc[p].op \in WriteOps /\ pc[p].at = "cs"}

\* C8 (under SpecRace: no Shutdown, valid configs): Initialize calls are
\* serialized; at most one provider/tracer set is ever published; no two
\* goroutines both return success; and every Initialize that has returned
\* either succeeded, or was rejected as already initialized, or failed in
\* construction, with exactly one success whenever one call got past construction.
C8_ConcurrentInitializeOneWins ==
    /\ Cardinality(Writers) <= 1
    /\ created <= 1
    /\ initialized <=> created = 1
    /\ initialized => /\ globalTracer = created
                      /\ globalTracerProvider = created
                      /\ DOMAIN tps = {created}
    /\ \A p \in Procs :
          (pc[p] = Idle /\ ret[p].op = "Initialize")
              => /\ ret[p].err \in {ErrNil, ErrAlreadyInitialized, ErrCreateProvider}
                 /\ ret[p].err # ErrCreateProvider => (initialized /\ created = 1)
    /\ \A p \in Procs : \A q \in Procs \ {p} :
          ~(Returned(p, "Initialize", ErrNil) /\ Returned(q, "Initialize", ErrNil))

\* Both goroutines have returned from Initialize: one won, the other was rejected.
C8_Witness ==
    \E p \in Procs : \E q \in Procs \ {p} :
        /\ Returned(p, "Initialize", ErrNil)
        /\ Returned(q, "Initialize", ErrAlreadyInitialized)

\* C9: a StartSpan (or StartSpanWithOptions) call waiting to start while the
\* facade is Uninitialized can always proceed: it waits on no other operation.
C9_UninitializedStartSpanNeverBlocks ==
    \A p \in Procs :
        (pc[p].op \in SpanOps /\ pc[p].at = "lock" /\ ~initialized)
            => ENABLED RLock(p)

\* C9 as amended: such a call waits for the read lock only.  It is blocked
\* only while another goroutine's Initialize or Shutdown holds or awaits the
\* write lock, never by other StartSpan, StartSpanWithOptions or IsInitialized
\* calls, and once it holds the read lock it can complete.
C9_StartSpanWaitsOnlyForWriters ==
    \A p \in Procs :
        (pc[p].op \in SpanOps /\ ~initialized)
            => /\ (pc[p].at = "lock" /\ ~ENABLED RLock(p))
                      => \E q \in Procs \ {p} :
                            /\ globalMutex.writer = q
                            /\ pc[q].op \in WriteOps
                            /\ pc[q].at \in {"wait", "cs"}
               /\ pc[p].at = "cs"
                      => ENABLED (\E ctx \in Contexts, name \in Names,
                                     opts \in OptionLists :
                                     StartSpanBody(p, pc[p].op, ctx, name, opts))

\* A StartSpan blocked at RLock while an Initialize is in its critical section
\* and the facade is still Uninitialized.
C9_Witness ==
    \E p \in Procs : \E q \in Procs \ {p} :
        /\ pc[p].op \in SpanOps
        /\ pc[p].at = "lock"
        /\ ~initialized
        /\ At(q, "Initialize", "cs")
        /\ ~ENABLED RLock(p)

\* The error Shutdown is to return for the set of shutdown calls that failed.
ExpectedShutdownError(tpFailed, expFailed) ==
    CASE ~tpFailed /\ ~expFailed -> ErrNil
      [] tpFailed /\ ~expFailed -> ErrProviderShutdown
      [] ~tpFailed /\ expFailed -> ErrExporterShutdown
      [] tpFailed /\ expFailed -> ErrMultipleShutdown

\* C10: a Shutdown that runs while the facade is Initialized calls the
\* provider's shutdown and then, when there is an exporter, the exporter's,
\* each whatever the other returned, and returns nil when neither failed, the
\* provider's failure alone, the exporter's failure alone, or the error that
\* reports both.
C10_ShutdownReportsFailures ==
    [][\A p \in Procs :
          (Returns(p, "Shutdown") /\ initialized)
              => \A tpFails \in BOOLEAN, expFails \in BOOLEAN :
                    ShutdownBody(p, tpFails, expFails)
                        => /\ ret'[p].calls =
                                  IF globalExporter # None
                                  THEN <<"provider", "exporter">>
                                  ELSE <<"provider">>
                           /\ ret'[p].err =
                                  ExpectedShutdownError(
                                      tpFails, globalExporter # None /\ expFails)]_vars

\* All four outcomes have been seen with an exporter present; here, both failed.
C10_Witness ==
    \E p \in Procs :
        /\ Returned(p, "Shutdown", ErrMultipleShutdown)
        /\ ret[p].calls = <<"provider", "exporter">>

\* C11: with tracing enabled the configured sample rate is the fraction of
\* traces sampled: a successful Initialize with a rate r, 0 < r < 1, builds the
\* ratio-based sampler at rate r, and only the rate 1.0 builds the sampler that
\* samples every trace.
C11_SampleRateIsFraction ==
    [][\A p \in Procs :
          (Returns(p, "Initialize") /\ ~initialized /\ initialized')
              => \A config \in Configs, ctorFails \in BOOLEAN :
                    (InitializeBody(p, config, ctorFails) /\ config.TraceEnabled)
                        => LET sampler == tps'[created'].sampler
                           IN  /\ (config.SampleRate > 0 /\ config.SampleRate < 1000)
                                     => sampler = [kind |-> "TraceIDRatioBased",
                                                   rate |-> config.SampleRate]
                               /\ sampler.kind = "AlwaysSample"
                                     => config.SampleRate = 1000]_vars

\* C12: with tracing enabled the exporter a successful Initialize constructs
\* uses the transport the config's exporter type selects: the HTTP client for
\* HTTP, the gRPC client for GRPC.
C12_ExporterTypeSelectsTransport ==
    [][\A p \in Procs :
          (Returns(p, "Initialize") /\ ~initialized /\ initialized')
              => \A config \in Configs, ctorFails \in BOOLEAN :
                    (InitializeBody(p, config, ctorFails) /\ config.TraceEnabled)
                        => tps'[created'].transport = config.ExporterType]_vars

\* The goroutines inside the critical section of an operation (holding the
\* lock), writers and readers.
InCS == {p \in Procs : pc[p].at = "cs"}

ReadersInCS == {p \in InCS : pc[p].op \in ReadOps}

\* The flag and the tracer and provider handles agree.
Published ==
    /\ initialized <=> globalTracer # None
    /\ initialized <=> globalTracerProvider # None

\* C13: every access to the global state is under the one readers-writer lock.
\* An Initialize or Shutdown inside its critical section excludes every other
\* operation from theirs; readers exclude nobody but writers; the lock's own
\* record agrees with who is inside; and a reader inside its critical section
\* sees the flag and the handles either all published or all reset.
C13_WritersExclusiveReadersShared ==
    /\ \A p \in InCS : pc[p].op \in WriteOps => InCS = {p}
    /\ \A p \in InCS : pc[p].op \in WriteOps => globalMutex.writer = p
    /\ globalMutex.readers = ReadersInCS
    /\ ReadersInCS # {} => Published

\* Two readers are inside their critical sections at once while the facade is
\* Initialized, and a writer was inside before them.
C13_Witness ==
    /\ ReadersInCS = Procs
    /\ initialized
    /\ created > 0

\* The provider the globals refer to.
ActiveProvider == tps[globalTracerProvider]

C15_StartSpanDelegates ==
    [][\A p \in Procs : \A o \in SpanOps :
          (Returns(p, o) /\ initialized)
              => \A ctx \in Contexts, name \in SpanNames, opts \in SpanOptionLists :
                    StartSpanBody(p, o, ctx, name, opts)
                        => LET new == Len(spans) + 1
                           IN  /\ Len(spans') = new
                               /\ SubSeq(spans', 1, Len(spans)) = spans
                               /\ spans'[new].name = name
                               /\ spans'[new].opts =
                                      IF o = "StartSpan" THEN <<>> ELSE opts
                               /\ ~spans'[new].ended
                               /\ ret'[p].span = new
                               /\ ret'[p].ctx # ctx
                               /\ ret'[p].ctx = new
                               /\ spans'[new].parent =
                                      IF ctx = Background THEN 0 ELSE ctx]_vars

\* A StartSpanWithOptions with an option and a context that carries the first
\* span has returned the second span, a child of the first with another name.
C15_Witness ==
    \E p \in Procs :
        /\ Returned(p, "StartSpanWithOptions", ErrNil)
        /\ initialized
        /\ Len(spans) = 2
        /\ ret[p].span = 2
        /\ ret[p].ctx = 2
        /\ spans[2].parent = 1
        /\ spans[2].opts # <<>>
        /\ spans[2].name # spans[1].name

\* A config with the sample rate left unset (zero), and the same config with
\* the rate written out as 0.01.
UnsetRateConfigs == {config \in Configs : config.SampleRate = 0}

WithRate(config, rate) == [config EXCEPT !.SampleRate = rate]

\* C16: an Initialize with the sample rate unset publishes what the Initialize
\* with the same config and the rate 0.01 publishes: whichever of the two a
\* successful step is, it is the other as well, with the same result, the same
\* global state and the same provider and sampler.
C16_UnsetRateIsDefaultRate ==
    [][\A p \in Procs :
          (Returns(p, "Initialize") /\ ~initialized /\ initialized')
              => \A config \in UnsetRateConfigs, ctorFails \in BOOLEAN :
                    InitializeBody(p, config, ctorFails)
                        <=> InitializeBody(p, WithRate(config, 10), ctorFails)]_vars

\* An Initialize with the rate unset is about to publish a provider with the
\* sampler of the rate 0.01.
C16_Witness ==
    \E p \in Procs : \E config \in UnsetRateConfigs :
        /\ At(p, "Initialize", "cs")
        /\ ~initialized
        /\ config.TraceEnabled
        /\ ENABLED (/\ InitializeBody(p, config, FALSE)
                    /\ initialized'
                    /\ tps'[created'].sampler = Sampler(WithRate(config, 10)))

\* C17: IsInitialized, StartSpan and StartSpanWithOptions only read the global
\* state: in every state, Initialized or not, the flag, the three handles, the
\* provider behind them and the SDK's registered defaults are after the call
\* what they were before it, and IsInitialized returns exactly the flag.
C17_ReadersLeaveStateUnchanged ==
    [][\A p \in Procs : \A o \in ReadOps :
          Returns(p, o)
              => /\ initialized' = initialized
                 /\ globalTracer' = globalTracer
                 /\ globalTracerProvider' = globalTracerProvider
                 /\ globalExporter' = globalExporter
                 /\ tps' = tps
                 /\ otelGlobals' = otelGlobals
                 /\ o = "IsInitialized"
                       => /\ ret'[p].val = initialized
                          /\ spans' = spans]_vars

\* After a Shutdown that followed an Initialize, IsInitialized has returned
\* false on one goroutine and StartSpan has returned on the other.
C17_Witness ==
    \E p \in Procs : \E q \in Procs \ {p} :
        /\ Returned(p, "IsInitialized", ErrNil)
        /\ ~ret[p].val
        /\ ~initialized
        /\ created > 0
        /\ Returned(q, "StartSpan", ErrNil)

\* No Initialize or Shutdown holds the write lock.
NoWriterInside == \A p \in Procs : ~(pc[p].op \in WriteOps /\ pc[p].at = "cs")

\* C18: in every reachable state in which no writer holds the lock, the flag
\* is set exactly when the tracer handle is non-empty and exactly when the
\* provider handle is non-empty, and the exporter handle is non-empty only if
\* the facade is Initialized and was initialized with tracing enabled (the
\* provider exports through a batching pipeline).
C18_FlagAndHandlesAgree ==
    NoWriterInside
        => /\ initialized = (globalTracer # None)
           /\ initialized = (globalTracerProvider # None)
           /\ globalExporter # None
                 => /\ initialized
                    /\ globalExporter = globalTracerProvider
                    /\ tps[globalTracerProvider].batched
                    /\ tps[globalTracerProvider].sampler.kind # "NeverSample"

\* Initialized with tracing disabled: tracer and provider present, no exporter,
\* and a reader inside its critical section looking at them.
C18_Witness ==
    /\ NoWriterInside
    /\ initialized
    /\ globalTracer # None
    /\ globalExporter = None
    /\ \E p \in Procs : At(p, "IsInitialized", "cs")

\* C19: over any sequence of Initialize and Shutdown calls, a Shutdown that
\* calls the provider's shutdown, or the exporter's, calls it on an instance on
\* which it has not been called before, also when the Shutdown is repeated
\* after one that failed.
C19_ShutdownAtMostOncePerInstance ==
    [][\A p \in Procs :
          (Returns(p, "Shutdown") /\ initialized)
              => /\ "provider" \in {ret'[p].calls[i] : i \in DOMAIN ret'[p].calls}
                       => ~tps[globalTracerProvider].tpShutdown
                 /\ "exporter" \in {ret'[p].calls[i] : i \in DOMAIN ret'[p].calls}
                       => ~tps[globalExporter].expShutdown]_vars

\* The lock as held by the goroutines that are between lock and unlock.
HeldBy(p) == globalMutex.writer = p \/ p \in globalMutex.readers

\* C20: every operation releases the lock on every exit path: a goroutine
\* that is outside the operations holds no lock, and the lock is held only by
\* goroutines past their lock statement.  Hence, the external shutdown and
\* construction calls returning, the system is never stuck with a goroutine
\* inside an operation, and every started operation eventually returns,
\* under every interleaving.
C20_EveryOperationCompletes ==
    /\ [](\A p \in Procs :
             /\ pc[p] = Idle => ~HeldBy(p)
             /\ pc[p].at = "lock" => ~HeldBy(p)
             /\ pc[p].at \in {"wait", "cs"} => HeldBy(p))
    /\ []((\E p \in Procs : pc[p] # Idle)
             => ENABLED (\E p \in Procs :
                            LockBegin(p) \/ LockAcquire(p) \/ RLock(p) \/ Body(p)))
    /\ \A p \in Procs : (pc[p] # Idle) ~> (pc[p] = Idle)

\* Contention: a Shutdown has announced itself and waits for a StartSpan that
\* is inside its critical section, while the facade is Initialized.
C20_Witness ==
    \E p \in Procs : \E q \in Procs \ {p} :
        /\ At(p, "Shutdown", "wait")
        /\ pc[q].op \in SpanOps
        /\ pc[q].at = "cs"
        /\ initialized

====
